---- MODULE Spec2Model ----
(***************************************************************************)
(* A model of src/components/GenerateContract.js: the NFT-collection form, *)
(* its validators, the Michelson template loader and the deployment flow   *)
(* (handleDeployContract / confirmDeployment) driven by user events, the   *)
(* wallet context and the completions of the Taquito SDK calls.            *)
(*                                                                         *)
(* Strings are sequences of one-character strings, so that split, trim,    *)
(* includes and the regular expressions are computed character by          *)
(* character.  A data URI is described by the length of its base64 payload *)
(* and the number of trailing '=' characters, the only things getByteSize  *)
(* reads.  Amounts of tez are integers of mutez.                           *)
(*                                                                         *)
(* React semantics: an event handler runs to completion, the component     *)
(* re-renders and the effects whose dependencies changed run before the    *)
(* next event is handled; an action is the handler together with the       *)
(* effects it triggers.  An async handler captures the state of the render *)
(* it was created in; every await is a point where other events interleave.*)
(***************************************************************************)
EXTENDS Integers, Sequences, FiniteSets, Bags, TLC

\* ------------------------------------------------------------------------
\* Characters and strings
\* ------------------------------------------------------------------------

Digits == {"0", "1", "2", "3", "4", "5", "6", "7", "8", "9"}

UpperCase ==
  {"A", "B", "C", "D", "E", "F", "G", "H", "I", "J", "K", "L", "M",
   "N", "O", "P", "Q", "R", "S", "T", "U", "V", "W", "X", "Y", "Z"}

LowerCase ==
  {"a", "b", "c", "d", "e", "f", "g", "h", "i", "j", "k", "l", "m",
   "n", "o", "p", "q", "r", "s", "t", "u", "v", "w", "x", "y", "z"}

AlnumChars == Digits \cup UpperCase \cup LowerCase

\* [1-9A-HJ-NP-Za-km-z]
Base58Chars == (Digits \ {"0"}) \cup (UpperCase \ {"I", "O"}) \cup (LowerCase \ {"l"})

\* \s of a JavaScript regular expression, and what String.prototype.trim strips
WhitespaceChars == {" ", "\t", "\n"}

\* [A-Za-z0-9\s.,'-]
AuthorChars == AlnumChars \cup WhitespaceChars \cup {".", ",", "'", "-"}

\* code in 0x20..0x7E (the characters of the model other than tab and newline)
PrintableChars == (AlnumChars \cup {" ", ".", ",", "'", "-", "_", ":", ";", "/", "=", "+", "!", "#"})

EmptyStr == <<>>

\* position of the first comma of s, 0 if there is none
FirstComma(s) ==
  IF \E i \in 1..Len(s) : s[i] = ","
  THEN CHOOSE i \in 1..Len(s) : s[i] = "," /\ \A j \in 1..(i - 1) : s[j] # ","
  ELSE 0

\* s.split(','): the empty string gives one empty part
RECURSIVE Split(_)
Split(s) ==
  LET i == FirstComma(s)
  IN  IF i = 0 THEN <<s>>
      ELSE <<SubSeq(s, 1, i - 1)>> \o Split(SubSeq(s, i + 1, Len(s)))

\* s.trim(): the whitespace at both ends is dropped
RECURSIVE TrimStart(_)
TrimStart(s) ==
  IF s # EmptyStr /\ Head(s) \in WhitespaceChars THEN TrimStart(Tail(s)) ELSE s

RECURSIVE TrimEnd(_)
TrimEnd(s) ==
  IF s # EmptyStr /\ s[Len(s)] \in WhitespaceChars
  THEN TrimEnd(SubSeq(s, 1, Len(s) - 1))
  ELSE s

Trim(s) == TrimEnd(TrimStart(s))

\* value.split(',').map((x) => x.trim())
SplitTrim(s) == LET parts == Split(s) IN [i \in 1..Len(parts) |-> Trim(parts[i])]

\* value.split(',').map((x) => x.trim()).filter((x) => x !== '')
SplitTrimFilter(s) == SelectSeq(SplitTrim(s), LAMBDA p : p # EmptyStr)

\* str.includes(sub)
Includes(s, sub) ==
  \E i \in 1..(Len(s) - Len(sub) + 1) : SubSeq(s, i, i + Len(sub) - 1) = sub

\* a duplicate check that compares neighbouring entries only
HasDuplicatesAdjacent(parts) == \E i \in 1..(Len(parts) - 1) : parts[i] = parts[i + 1]

\* new Set(arr).size !== arr.length
HasDuplicates(parts) == \E i, j \in 1..Len(parts) : i < j /\ parts[i] = parts[j]

\* removeControlChars: keeps the characters whose code is printable
removeControlChars(str) == SelectSeq(str, LAMBDA c : c \in PrintableChars)

\* /^(tz1|tz2|tz3|KT1)[1-9A-HJ-NP-Za-km-z]{33}$/
isValidTezosAddress(address) ==
  /\ Len(address) = 36
  /\ SubSeq(address, 1, 3) \in {<<"t", "z", "1">>, <<"t", "z", "2">>, <<"t", "z", "3">>, <<"K", "T", "1">>}
  /\ \A i \in 4..36 : address[i] \in Base58Chars

\* /^[A-Za-z0-9]{3,5}$/
symbolPattern(value) == Len(value) \in 3..5 /\ \A i \in 1..Len(value) : value[i] \in AlnumChars

\* /^[A-Za-z0-9\s.,'-]+$/
authorsPattern(value) == Len(value) >= 1 /\ \A i \in 1..Len(value) : value[i] \in AuthorChars

\* A data URI: empty is the empty string; otherwise the text after the first
\* comma has b64len characters of which the last pad are '='.
DataUri(len, pad) == [empty |-> FALSE, b64len |-> len, pad |-> pad]
NoDataUri == [empty |-> TRUE, b64len |-> 0, pad |-> 0]

\* a byte size that forgets the padding
getByteSizeNoPadding(dataUri) ==
  IF dataUri.b64len = 0 THEN 0 ELSE (dataUri.b64len * 3) \div 4

\* Math.floor((base64Data.length * 3) / 4) - padding, 0 without a payload
getByteSize(dataUri) ==
  IF dataUri.b64len = 0 THEN 0
  ELSE ((dataUri.b64len * 3) \div 4) - dataUri.pad

\* ------------------------------------------------------------------------
\* Notifications and error messages
\* ------------------------------------------------------------------------

\* a message text, with the string or the amount interpolated into it
Msg(text) == [text |-> text, arg |-> EmptyStr, num |-> 0]
MsgArg(text, arg) == [text |-> text, arg |-> arg, num |-> 0]
MsgNum(text, num) == [text |-> text, arg |-> EmptyStr, num |-> num]

NoError == Msg("")

MaxNameLen == 30
MaxDescriptionLen == 250
MinSymbolLen == 3
MaxSymbolLen == 5
MaxCreatorsLen == 200
MaxAuthorsLen == 50
MaxImageBytes == 20000

\* first entry of parts that is not a Tezos address
FirstInvalidAddress(parts) ==
  parts[CHOOSE i \in 1..Len(parts) :
          ~isValidTezosAddress(parts[i]) /\ \A j \in 1..(i - 1) : isValidTezosAddress(parts[j])]

NameError(value) ==
  IF value = EmptyStr THEN Msg("Name is required.")
  ELSE IF Len(value) > MaxNameLen THEN Msg("Name cannot exceed 30 characters.")
  ELSE NoError

DescriptionError(value) ==
  IF value = EmptyStr THEN Msg("Description is required.")
  ELSE IF Len(value) > MaxDescriptionLen THEN Msg("Description cannot exceed 250 characters.")
  ELSE NoError

\* the symbol rule without its pattern test
SymbolErrorNoPattern(value) ==
  IF value = EmptyStr THEN Msg("Symbol is required.")
  ELSE IF Len(value) < MinSymbolLen THEN Msg("Symbol must be at least 3 characters.")
  ELSE IF Len(value) > MaxSymbolLen THEN Msg("Symbol cannot exceed 5 characters.")
  ELSE NoError

SymbolError(value) ==
  IF value = EmptyStr THEN Msg("Symbol is required.")
  ELSE IF Len(value) < MinSymbolLen THEN Msg("Symbol must be at least 3 characters.")
  ELSE IF Len(value) > MaxSymbolLen THEN Msg("Symbol cannot exceed 5 characters.")
  ELSE IF ~symbolPattern(value) THEN Msg("Symbol must contain only letters and numbers.")
  ELSE NoError

CreatorsError(value) ==
  IF value = EmptyStr THEN Msg("Creator(s) are required.")
  ELSE IF Len(value) > MaxCreatorsLen THEN Msg("Creator(s) cannot exceed 200 characters.")
  ELSE LET creatorsArray == SplitTrim(value)
       IN  IF HasDuplicates(creatorsArray) THEN Msg("Duplicate creators detected.")
           ELSE IF \E i \in 1..Len(creatorsArray) : ~isValidTezosAddress(creatorsArray[i])
                THEN MsgArg("Invalid Tezos address detected: ", FirstInvalidAddress(creatorsArray))
                ELSE NoError

\* the part of the authors rule that sets an error
AuthorsError(value) ==
  IF value = EmptyStr THEN Msg("Author(s) are required.")
  ELSE IF Len(value) > MaxAuthorsLen THEN Msg("Author(s) cannot exceed 50 characters.")
  ELSE LET authorsArray == SplitTrim(value)
       IN  IF \E i \in 1..Len(authorsArray) : ~authorsPattern(authorsArray[i])
           THEN Msg("Author names can only contain letters, numbers, spaces, and standard punctuation (.,'-). Emojis and special characters are not allowed.")
           ELSE NoError

\* an authorAddresses rule that looks at the addresses before the counts
AuthorAddressesErrorAddressFirst(authors, value) ==
  LET authorsCount == Len(SplitTrimFilter(authors))
      authorAddressesArray == SplitTrimFilter(value)
  IN  IF \E i \in 1..Len(authorAddressesArray) : ~isValidTezosAddress(authorAddressesArray[i])
      THEN MsgArg("Invalid Tezos address detected: ", FirstInvalidAddress(authorAddressesArray))
      ELSE IF authorsCount # Len(authorAddressesArray)
           THEN Msg("Number of authors and author addresses must match.")
           ELSE NoError

\* the part of the authorAddresses rule that sets an error
AuthorAddressesError(authors, value) ==
  LET authorsCount == Len(SplitTrimFilter(authors))
      authorAddressesArray == SplitTrimFilter(value)
  IN  IF authorsCount # Len(authorAddressesArray)
      THEN Msg("Number of authors and author addresses must match.")
      ELSE IF \E i \in 1..Len(authorAddressesArray) : ~isValidTezosAddress(authorAddressesArray[i])
           THEN MsgArg("Invalid Tezos address detected: ", FirstInvalidAddress(authorAddressesArray))
           ELSE NoError

ImageUriError(value) ==
  IF value.empty THEN Msg("Image URI is required.")
  ELSE IF getByteSize(value) > MaxImageBytes THEN Msg("Image URI must be under 20KB.")
  ELSE NoError

AgreeToTermsError(value) ==
  IF ~value THEN Msg("You must agree to the terms and conditions.") ELSE NoError

\* errors[f] = m
SetError(errors, f, m) == [g \in (DOMAIN errors) \cup {f} |-> IF g = f THEN m ELSE errors[g]]

\* delete errors[f]
DeleteError(errors, f) == [g \in (DOMAIN errors) \ {f} |-> errors[g]]

\* set on failure, delete on success
SetOrDelete(errors, f, m) == IF m # NoError THEN SetError(errors, f, m) ELSE DeleteError(errors, f)

\* set on failure; on success the entry is deleted only if it is not there
\* (if (!errors.f) delete errors.f), so an earlier entry stays
SetOrKeep(errors, f, m) == IF m # NoError THEN SetError(errors, f, m) ELSE errors

\* validateField(fieldName, value): the mapping handed to setFormErrors, from
\* the formErrors and formData of the render the handler belongs to
validateField(errors, data, fieldName, value) ==
  CASE fieldName = "name" -> SetOrDelete(errors, "name", NameError(value))
    [] fieldName = "description" -> SetOrDelete(errors, "description", DescriptionError(value))
    [] fieldName = "symbol" -> SetOrDelete(errors, "symbol", SymbolError(value))
    [] fieldName = "creators" -> SetOrDelete(errors, "creators", CreatorsError(value))
    [] fieldName = "authors" ->
         IF value = EmptyStr \/ Len(value) > MaxAuthorsLen
         THEN SetError(errors, "authors", AuthorsError(value))
         ELSE SetOrKeep(errors, "authors", AuthorsError(value))
    [] fieldName = "authorAddresses" ->
         SetOrKeep(errors, "authorAddresses", AuthorAddressesError(data.authors, value))
    [] fieldName = "imageUri" -> SetOrDelete(errors, "imageUri", ImageUriError(value))
    [] fieldName = "agreeToTerms" -> SetOrDelete(errors, "agreeToTerms", AgreeToTermsError(value))
    [] OTHER -> errors

\* a validateForm that forgets the agreeToTerms rule
validateFormErrorsNoTerms(data) ==
  LET all == [name |-> NameError(data.name),
              description |-> DescriptionError(data.description),
              symbol |-> SymbolError(data.symbol),
              creators |-> CreatorsError(data.creators),
              authors |-> AuthorsError(data.authors),
              authorAddresses |-> AuthorAddressesError(data.authors, data.authorAddresses),
              imageUri |-> ImageUriError(data.imageUri)]
  IN  [f \in {g \in DOMAIN all : all[g] # NoError} |-> all[f]]

\* validateForm(): the mapping handed to setFormErrors
validateFormErrors(data) ==
  LET all == [name |-> NameError(data.name),
              description |-> DescriptionError(data.description),
              symbol |-> SymbolError(data.symbol),
              creators |-> CreatorsError(data.creators),
              authors |-> AuthorsError(data.authors),
              authorAddresses |-> AuthorAddressesError(data.authors, data.authorAddresses),
              imageUri |-> ImageUriError(data.imageUri),
              agreeToTerms |-> AgreeToTermsError(data.agreeToTerms)]
  IN  [f \in {g \in DOMAIN all : all[g] # NoError} |-> all[f]]

\* the fields validateField has a case for, in the order of validateForm
FieldNames ==
  <<"name", "description", "symbol", "creators", "authors", "authorAddresses",
    "imageUri", "agreeToTerms">>

\* let errors = {}
EmptyErrors == [f \in {} |-> NoError]

\* validateField on the fields k, k+1, ... in turn, each call starting from
\* the mapping the call before it produced
RECURSIVE ValidateFieldsFrom(_, _, _)
ValidateFieldsFrom(errors, data, k) ==
  IF k > Len(FieldNames) THEN errors
  ELSE ValidateFieldsFrom(validateField(errors, data, FieldNames[k], data[FieldNames[k]]),
                          data, k + 1)

\* validateField on every field in turn, starting from an empty mapping
validateEachField(data) == ValidateFieldsFrom(EmptyErrors, data, 1)

\* the message the rules of one field give for a formData, NoError on a pass
FieldError(data, fieldName) ==
  CASE fieldName = "name" -> NameError(data.name)
    [] fieldName = "description" -> DescriptionError(data.description)
    [] fieldName = "symbol" -> SymbolError(data.symbol)
    [] fieldName = "creators" -> CreatorsError(data.creators)
    [] fieldName = "authors" -> AuthorsError(data.authors)
    [] fieldName = "authorAddresses" -> AuthorAddressesError(data.authors, data.authorAddresses)
    [] fieldName = "imageUri" -> ImageUriError(data.imageUri)
    [] fieldName = "agreeToTerms" -> AgreeToTermsError(data.agreeToTerms)

\* validateForm(): Object.keys(errors).length === 0
validateForm(data) == DOMAIN validateFormErrors(data) = {}

\* ------------------------------------------------------------------------
\* Values of the model
\* ------------------------------------------------------------------------

\* null, 'N/A' or a number
Null == [kind |-> "null", val |-> 0]
NA == [kind |-> "N/A", val |-> 0]
Num(n) == [kind |-> "num", val |-> n]

\* the Michelson text is a sequence of tokens; '' is the empty sequence
EmptyCode == <<>>
Tok(t, a) == [t |-> t, a |-> a]
\* the token "__ADMIN_ADDRESS__" with its quotes
QuotedPlaceholder == Tok("\"__ADMIN_ADDRESS__\"", EmptyStr)
\* the same token without quotes around it
BarePlaceholder == Tok("__ADMIN_ADDRESS__", EmptyStr)
\* a quoted address literal
QuotedAddress(a) == Tok("\"address\"", a)

WalletA ==
  <<"t", "z", "1", "V", "S", "U", "r", "8", "w", "w", "N", "h", "L", "A", "z", "e", "m", "p",
    "o", "c", "h", "5", "d", "6", "h", "L", "R", "i", "T", "h", "8", "C", "j", "c", "j", "b">>

\* what the WalletContext can hand to the component: <<isWalletConnected, walletAddress>>
WalletStates == {<<FALSE, EmptyStr>>, <<TRUE, EmptyStr>>, <<TRUE, WalletA>>}

Versions == {"v1", "v2"}

\* the static assets /contracts/FOC.tz and /contracts/nft_editions.tz as served
AssetText(version) ==
  IF version = "v1"
  THEN <<Tok("storage", EmptyStr), QuotedPlaceholder, Tok("code", EmptyStr)>>
  ELSE <<Tok("storage", EmptyStr), Tok("code-editions", EmptyStr)>>

\* a v1 asset that lost its placeholder
AssetTextNoPlaceholder == <<Tok("storage", EmptyStr), Tok("code", EmptyStr)>>

\* what a fetch can answer: "error" (network error, status not ok) or a text
FetchAnswers(version) ==
  {[ok |-> FALSE, text |-> EmptyCode], [ok |-> TRUE, text |-> AssetText(version)]}
    \cup (IF version = "v1" THEN {[ok |-> TRUE, text |-> AssetTextNoPlaceholder]} ELSE {})

Str_Art == <<"A", "r", "t">>
Str_desc == <<"d", "e", "s", "c">>
Str_Alice == <<"A", "l", "i", "c", "e">>
Str_ART1 == <<"A", "R", "T", "1">>

\* the values the user types, field by field
FieldInputs ==
  {<<"name", Str_Art>>,
   <<"description", Str_desc>>,
   <<"symbol", Str_ART1>>,
   <<"creators", WalletA>>,
   <<"authors", Str_Alice>>,
   <<"authorAddresses", WalletA>>,
   <<"agreeToTerms", TRUE>>,
   <<"agreeToTerms", FALSE>>}

\* the data URIs the FileUpload component hands over
ThumbnailInputs == {DataUri(8, 1)}

\* a second address, and comma-separated lists
WalletB == [WalletA EXCEPT ![36] = "c"]
Join(a, b) == a \o <<",">> \o b
Str_AliceBob == Join(Str_Alice, <<"B", "o", "b">>)
Str_AB == <<"A", "B">>

\* a string of n characters
Filler(n) == [i \in 1..n |-> "x"]

\* the data URI FileReader.readAsDataURL gives for a file of n bytes: standard
\* padded base64, 4 characters for every 3 bytes, '=' for the missing bytes
EncodedDataUri(n) == DataUri(4 * ((n + 2) \div 3), (3 - (n % 3)) % 3)

\* values the user can type besides the valid ones: a name that is too long,
\* a symbol that is too short, a creator twice, a second author with or
\* without a second address
FormInputs ==
  FieldInputs \cup
    {<<"name", Filler(MaxNameLen + 1)>>,
     <<"symbol", Str_AB>>,
     <<"creators", Join(WalletA, WalletA)>>,
     <<"authors", Str_AliceBob>>,
     <<"authorAddresses", Join(WalletA, WalletB)>>}

\* thumbnails of 8 bytes and of one byte more than the limit
FormThumbnails == ThumbnailInputs \cup {EncodedDataUri(MaxImageBytes + 1)}

\* ---- inputs of the validators ----

MaxSymbolInputLen == 6
MaxCreatorEntries == 3
MaxDistinctCreators == 6
MaxPayloadBytes == 48

\* a letter, a lower-case letter, a digit and a character that is none of them
SymbolAlphabet == {"A", "z", "7", "-"}

\* every symbol over SymbolAlphabet up to MaxSymbolInputLen characters
SymbolInputs == UNION {[1..n -> SymbolAlphabet] : n \in 0..MaxSymbolInputLen}

\* the k-th of a family of distinct addresses (the first is WalletA)
Address(k) ==
  [WalletA EXCEPT ![36] = <<"b", "c", "d", "e", "f", "g", "h", "i", "j", "k">>[k]]

\* WalletA with one letter in the other case: a different, valid address
WalletLower == [WalletA EXCEPT ![5] = "s"]

Str_xyz == <<"x", "y", "z">>

\* entries joined with a separator
RECURSIVE JoinAll(_, _)
JoinAll(parts, sep) ==
  IF Len(parts) = 0 THEN EmptyStr
  ELSE IF Len(parts) = 1 THEN parts[1]
  ELSE LET half == Len(parts) \div 2
       IN  JoinAll(SubSeq(parts, 1, half), sep) \o sep
             \o JoinAll(SubSeq(parts, half + 1, Len(parts)), sep)

\* ---- the metadata payload ----

\* c.charCodeAt(0): strings are sequences of UTF-16 code units, the printable
\* ASCII ones written as themselves, the others by their code
CharCode(c) ==
  LET ascii ==
        <<" ", "!", "\"", "#", "$", "%", "&", "'", "(", ")", "*", "+", ",", "-", ".", "/",
          "0", "1", "2", "3", "4", "5", "6", "7", "8", "9", ":", ";", "<", "=", ">", "?",
          "@", "A", "B", "C", "D", "E", "F", "G", "H", "I", "J", "K", "L", "M", "N", "O",
          "P", "Q", "R", "S", "T", "U", "V", "W", "X", "Y", "Z", "[", "\\", "]", "^", "_",
          "U+0060", "a", "b", "c", "d", "e", "f", "g", "h", "i", "j", "k", "l", "m", "n", "o",
          "p", "q", "r", "s", "t", "u", "v", "w", "x", "y", "z", "{", "|", "}", "~">>
  IN  IF \E i \in 1..Len(ascii) : ascii[i] = c
      THEN 31 + (CHOOSE i \in 1..Len(ascii) : ascii[i] = c)
      ELSE CASE c = "\t" -> 9
             [] c = "\n" -> 10
             [] c = "U+00E9" -> 233
             [] c = "U+0101" -> 257
             [] c = "U+20AC" -> 8364
             [] c = "U+D83D" -> 55357
             [] c = "U+DE00" -> 56832

\* [...str].map((c) => c.charCodeAt(0).toString(16).padStart(2, '0')).join(''):
\* the spread walks code points, so the second unit of a surrogate pair is
\* no element of its own
stringToHex(str) ==
  LET digit(n) == <<"0", "1", "2", "3", "4", "5", "6", "7", "8", "9",
                    "a", "b", "c", "d", "e", "f">>[n + 1]
      hex(n) == IF n < 256 THEN <<digit(n \div 16), digit(n % 16)>>
                ELSE IF n < 4096
                THEN <<digit(n \div 256), digit((n \div 16) % 16), digit(n % 16)>>
                ELSE <<digit(n \div 4096), digit((n \div 256) % 16),
                       digit((n \div 16) % 16), digit(n % 16)>>
      high(c) == CharCode(c) \in 55296..56319
      low(c) == CharCode(c) \in 56320..57343
      elements == SelectSeq([i \in 1..Len(str) |-> i],
                            LAMBDA i : ~(i > 1 /\ low(str[i]) /\ high(str[i - 1])))
  IN  JoinAll([k \in 1..Len(elements) |-> hex(CharCode(str[elements[k]]))], EmptyStr)

\* JSON.stringify(metadataObj): the keys in insertion order, strings quoted
\* and escaped, no white space; a data URI is written with its payload
\* characters
JsonStringify(metadata) ==
  LET escape(c) == CASE c = "\"" -> <<"\\", "\"">>
                     [] c = "\\" -> <<"\\", "\\">>
                     [] c = "\n" -> <<"\\", "n">>
                     [] c = "\t" -> <<"\\", "t">>
                     [] OTHER -> <<c>>
      string(v) == <<"\"">> \o JoinAll([i \in 1..Len(v) |-> escape(v[i])], EmptyStr) \o <<"\"">>
      array(l) == <<"[">> \o JoinAll([i \in 1..Len(l) |-> string(l[i])], <<",">>) \o <<"]">>
      uri(u) == IF u.empty THEN EmptyStr
                ELSE <<"d", "a", "t", "a", ":", "i", "m", "a", "g", "e", "/", "p", "n",
                         "g", ";", "b", "a", "s", "e", "6", "4", ",">>
                       \o [i \in 1..u.b64len |-> IF i > u.b64len - u.pad THEN "=" ELSE "A"]
  IN  <<"{", "\"", "n", "a", "m", "e", "\"", ":">> \o string(metadata.name)
        \o <<",", "\"", "d", "e", "s", "c", "r", "i", "p", "t", "i", "o", "n", "\"", ":">>
        \o string(metadata.description)
        \o <<",", "\"", "i", "n", "t", "e", "r", "f", "a", "c", "e", "s", "\"", ":", "[",
             "\"", "T", "Z", "I", "P", "-", "0", "1", "2", "\"", ",", "\"", "T", "Z", "I",
             "P", "-", "0", "1", "6", "\"", "]", ",", "\"", "a", "u", "t", "h", "o", "r",
             "s", "\"", ":">>
        \o array(metadata.authors)
        \o <<",", "\"", "a", "u", "t", "h", "o", "r", "a", "d", "d", "r", "e", "s", "s",
             "\"", ":">>
        \o array(metadata.authoraddress)
        \o <<",", "\"", "s", "y", "m", "b", "o", "l", "\"", ":">> \o string(metadata.symbol)
        \o <<",", "\"", "c", "r", "e", "a", "t", "o", "r", "s", "\"", ":">> \o array(metadata.creators)
        \o <<",", "\"", "t", "y", "p", "e", "\"", ":">> \o string(<<"a", "r", "t">>)
        \o <<",", "\"", "i", "m", "a", "g", "e", "U", "r", "i", "\"", ":">> \o string(uri(metadata.imageUri))
        \o <<"}">>

\* the first n addresses of the family, comma-separated
DistinctAddresses(n) == JoinAll([k \in 1..n |-> Address(k)], <<",">>)

\* creators values: every list of up to MaxCreatorEntries entries over three
\* addresses (with and without a space after the comma), lists of distinct
\* addresses up to MaxDistinctCreators entries, and lists with an entry that
\* is no address
CreatorInputs ==
  {JoinAll(l, sep) :
     l \in UNION {[1..n -> {WalletA, WalletB, WalletLower}] : n \in 1..MaxCreatorEntries},
     sep \in {<<",">>, <<",", " ">>}}
    \cup {DistinctAddresses(n) : n \in 1..MaxDistinctCreators}
    \cup {EmptyStr, Str_xyz, Join(WalletA, Str_xyz), Join(WalletA, EmptyStr),
          <<",">>, Filler(MaxCreatorsLen + 1)}

\* authors values: none, one, two, a blank entry between two, blanks only,
\* six one-letter authors, fifty and fifty-one characters, a character
\* outside the pattern
AuthorInputs ==
  {EmptyStr, Str_Alice, Str_AliceBob, Join(Str_Alice, <<" ">>), <<" ">>,
   <<"a", ",", "b", ",", "c", ",", "d", ",", "e", ",", "f">>,
   Filler(MaxAuthorsLen), Filler(MaxAuthorsLen + 1), <<"A", "#">>}

\* authorAddresses values: none, one, two, an empty entry after one, no
\* address at all, six addresses (221 characters)
AuthorAddressInputs ==
  {EmptyStr, WalletA, Join(WalletA, WalletB), Join(WalletA, EmptyStr), Str_xyz,
   Join(Str_xyz, WalletA), DistinctAddresses(6)}

\* files of 0..MaxPayloadBytes bytes and of sizes around the limit
PayloadSizes == (0..MaxPayloadBytes) \cup ((MaxImageBytes - 3)..(MaxImageBytes + 3))
ImageInputs == {NoDataUri} \cup {EncodedDataUri(n) : n \in PayloadSizes}

\* the formData of useState
InitialFormData ==
  [name |-> EmptyStr, description |-> EmptyStr, authors |-> EmptyStr,
   authorAddresses |-> EmptyStr, symbol |-> EmptyStr, creators |-> EmptyStr,
   type |-> "art", imageUri |-> NoDataUri, agreeToTerms |-> FALSE,
   contractVersion |-> "v1"]

\* a formData with every field valid
ValidFormData ==
  [InitialFormData EXCEPT
     !.name = Str_Art, !.description = Str_desc, !.symbol = Str_ART1,
     !.creators = WalletA, !.authors = Str_Alice, !.authorAddresses = WalletA,
     !.imageUri = DataUri(8, 1), !.agreeToTerms = TRUE]

\* the formData snapshots the validators are applied to: the empty and the
\* valid form with one field, or the authors and authorAddresses pair, varied
\* (the symbols on the empty form only); name and description are empty,
\* short, at their limits and one character above them, and the name also
\* holds characters outside ASCII (U+00E9, U+0101, U+20AC and U+1F600, the
\* last one two code units)
Snapshots ==
  {[InitialFormData EXCEPT !.symbol = v] : v \in SymbolInputs} \cup
  UNION {{[base EXCEPT !.name = v] :
            v \in {EmptyStr, Str_Art, Filler(MaxNameLen), Filler(MaxNameLen + 1),
                   <<"U+00E9">>, <<"U+0101">>, <<"U+20AC">>, <<"U+D83D", "U+DE00">>}}
           \cup {[base EXCEPT !.description = v] :
                   v \in {EmptyStr, Str_desc, Filler(MaxDescriptionLen),
                          Filler(MaxDescriptionLen + 1)}}
           \cup {[base EXCEPT !.symbol = v] : v \in {Str_AB, Str_ART1}}
           \cup {[base EXCEPT !.creators = v] : v \in CreatorInputs}
           \cup {[base EXCEPT !.authors = a, !.authorAddresses = b] :
                   a \in AuthorInputs, b \in AuthorAddressInputs}
           \cup {[base EXCEPT !.imageUri = v] : v \in ImageInputs}
           \cup {[base EXCEPT !.agreeToTerms = v] : v \in BOOLEAN}
         : base \in {InitialFormData, ValidFormData}}

\* an error mapping with an entry recorded earlier for every field
AllFieldErrors ==
  [name |-> Msg("Name is required."),
   description |-> Msg("Description is required."),
   symbol |-> Msg("Symbol is required."),
   creators |-> Msg("Creator(s) are required."),
   authors |-> Msg("Author(s) are required."),
   authorAddresses |-> Msg("Number of authors and author addresses must match."),
   imageUri |-> Msg("Image URI is required."),
   agreeToTerms |-> Msg("You must agree to the terms and conditions.")]

\* the error mappings validateField starts from
PriorErrors == {EmptyErrors, AllFieldErrors}

\* tez per byte, in mutez
STORAGE_COST_PER_BYTE == 250

\* ------------------------------------------------------------------------
\* The SDK boundary: what the awaited calls can answer
\* ------------------------------------------------------------------------

Str_balance_too_low ==
  <<"b", "a", "l", "a", "n", "c", "e", "_", "t", "o", "o", "_", "l", "o", "w">>

Str_proto_balance_too_low ==
  <<"p", "r", "o", "t", "o", ".", "b", "a", "l", "a", "n", "c", "e", "_", "t", "o", "o", "_",
    "l", "o", "w">>

Str_FA2_NOT_OWNER == <<"F", "A", "2", "_", "N", "O", "T", "_", "O", "W", "N", "E", "R">>

Str_rpc_failed == <<"r", "p", "c", " ", "f", "a", "i", "l", "e", "d">>

Str_quota == <<"q", "u", "o", "t", "a">>

\* an entry of error.data: its with.string, '' when it has none
DataEntry(str) == [with |-> str]

\* the errors a rejected SDK call carries: name, data[], message
SdkErrors ==
  {[name |-> "AbortedBeaconError", data |-> <<>>, message |-> Str_rpc_failed],
   [name |-> "TransactionInvalidBeaconError",
    data |-> <<DataEntry(Str_proto_balance_too_low)>>, message |-> Str_rpc_failed],
   [name |-> "TransactionInvalidBeaconError",
    data |-> <<DataEntry(Str_FA2_NOT_OWNER)>>, message |-> Str_rpc_failed],
   [name |-> "TransactionInvalidBeaconError",
    data |-> <<DataEntry(EmptyStr), DataEntry(Str_proto_balance_too_low)>>,
    message |-> Str_rpc_failed],
   [name |-> "Error", data |-> <<>>, message |-> Str_rpc_failed],
   [name |-> "", data |-> <<>>, message |-> EmptyStr]}

\* what localStorage.setItem throws when the quota is exceeded
StorageError == [name |-> "QuotaExceededError", data |-> <<>>, message |-> Str_quota]

\* error?.data?.[0]?.with?.string
ScriptErrorString(error) ==
  IF Len(error.data) >= 1 THEN error.data[1].with ELSE EmptyStr

\* tezos.tz.getBalance: balances in mutez
Balances == {1999, 2000}

\* tezos.estimate.originate: suggestedFeeMutez, gasLimit, storageLimit
Estimates == {[suggestedFeeMutez |-> 1000, gasLimit |-> 1500, storageLimit |-> 4]}

ContractA ==
  <<"K", "T", "1", "V", "S", "U", "r", "8", "w", "w", "N", "h", "L", "A", "z", "e", "m", "p",
    "o", "c", "h", "5", "d", "6", "h", "L", "R", "i", "T", "h", "8", "C", "j", "c", "j", "b">>

\* contract.address as originationOp.contract() answers it; '' when it has none
ContractAnswers == {ContractA, EmptyStr}

\* ------------------------------------------------------------------------
\* Bounds
\* ------------------------------------------------------------------------

\* clicks on Deploy Contract over a run
MaxAttempts == 2
\* template fetches in flight at the same time
MaxFetches == 1

\* tokens of a served text
MaxTemplateTokens == 3

\* the texts a server can answer a template request with: up to
\* MaxTemplateTokens tokens, the placeholder with and without quotes among them
TemplateTexts ==
  UNION {[1..n -> {Tok("storage", EmptyStr), Tok("code", EmptyStr),
                   QuotedPlaceholder, BarePlaceholder}] : n \in 1..MaxTemplateTokens}

\* ------------------------------------------------------------------------
\* State
\* ------------------------------------------------------------------------

VARIABLES
  formData,                   \* useState: the form
  formErrors,                 \* useState: field -> message
  snackbar,                   \* useState: the notification
  contractAddress,            \* useState
  deploying,                  \* useState
  modifiedMichelsonCode,      \* useState: the generated contract
  confirmDialog,              \* useState: [open, data]; data is <<>> for null
  contractDialogOpen,         \* useState: the save-address modal
  michelsonCode,              \* useState: the loaded template
  estimatedFeeTez,            \* useState
  estimatedGasLimit,          \* useState
  estimatedStorageLimit,      \* useState
  estimatedBalanceChangeTez,  \* useState
  metadataPreview,            \* useState: <<>> for null
  isWalletConnected,          \* WalletContext
  walletAddress,              \* WalletContext; '' when undefined
  deployedContracts,          \* localStorage: the list under 'deployedContracts'
  fetches,                    \* bag of the fetchMichelson calls awaiting their answer
  tasks,                      \* the async handlers awaiting an SDK call
  attempts,                   \* clicks on Deploy Contract so far
  estimatedFor                \* history: <<the handleDeployContract call whose
                              \* estimate was answered>> while the prompt of
                              \* that answer is open, <<>> otherwise

vars ==
  <<formData, formErrors, snackbar, contractAddress, deploying, modifiedMichelsonCode,
    confirmDialog, contractDialogOpen, michelsonCode, estimatedFeeTez, estimatedGasLimit,
    estimatedStorageLimit, estimatedBalanceChangeTez, metadataPreview, isWalletConnected,
    walletAddress, deployedContracts, fetches, tasks, attempts, estimatedFor>>

formVars == <<formData, formErrors, metadataPreview>>
walletVars == <<isWalletConnected, walletAddress>>
templateVars == <<michelsonCode, modifiedMichelsonCode, fetches>>
estimateVars ==
  <<estimatedFeeTez, estimatedGasLimit, estimatedStorageLimit, estimatedBalanceChangeTez,
    estimatedFor>>
resultVars == <<contractAddress, contractDialogOpen, deployedContracts>>

Notify(message, severity) == [open |-> TRUE, message |-> message, severity |-> severity]

ClosedDialog == [open |-> FALSE, data |-> <<>>]

\* ------------------------------------------------------------------------
\* Effects
\* ------------------------------------------------------------------------

\* a preview effect that looks at the required strings only, not at formErrors
MetadataPreviewIgnoresErrors(data, errors) ==
  IF /\ data.name # EmptyStr
     /\ data.description # EmptyStr
     /\ data.authors # EmptyStr
     /\ data.authorAddresses # EmptyStr
     /\ data.symbol # EmptyStr
     /\ data.creators # EmptyStr
     /\ ~data.imageUri.empty
  THEN <<[name |-> data.name,
          description |-> data.description,
          interfaces |-> <<"TZIP-012", "TZIP-016">>,
          authors |-> SplitTrimFilter(data.authors),
          authoraddress |-> SplitTrimFilter(data.authorAddresses),
          symbol |-> data.symbol,
          creators |-> SplitTrimFilter(data.creators),
          type |-> data.type,
          imageUri |-> data.imageUri]>>
  ELSE <<>>

\* the metadataPreview effect: the object handed to setMetadataPreview
MetadataPreviewOf(data, errors) ==
  IF /\ data.name # EmptyStr
     /\ data.description # EmptyStr
     /\ data.authors # EmptyStr
     /\ data.authorAddresses # EmptyStr
     /\ data.symbol # EmptyStr
     /\ data.creators # EmptyStr
     /\ data.type # ""
     /\ ~data.imageUri.empty
     /\ DOMAIN errors = {}
  THEN <<[name |-> data.name,
          description |-> data.description,
          interfaces |-> <<"TZIP-012", "TZIP-016">>,
          authors |-> SplitTrimFilter(data.authors),
          authoraddress |-> SplitTrimFilter(data.authorAddresses),
          symbol |-> data.symbol,
          creators |-> SplitTrimFilter(data.creators),
          type |-> data.type,
          imageUri |-> data.imageUri]>>
  ELSE <<>>

\* a generateContract that never hands the template to setModifiedMichelsonCode
GenerateContractNoTemplate(data, code, snack) ==
  [errors |-> validateFormErrors(data), modified |-> EmptyCode, snack |-> snack]

\* the generateContract effect on the render with this formData, michelsonCode
\* and snackbar: what it hands to setFormErrors, setModifiedMichelsonCode and
\* setSnackbar
GenerateContract(data, code, snack) ==
  LET errors == validateFormErrors(data)
  IN  IF DOMAIN errors # {}
      THEN [errors |-> errors, modified |-> EmptyCode, snack |-> snack]
      ELSE IF code = EmptyCode
      THEN [errors |-> errors, modified |-> EmptyCode,
            snack |-> Notify(Msg("Error generating contract. Please try again."), "error")]
      ELSE [errors |-> errors, modified |-> code,
            snack |-> Notify(Msg("Contract generated successfully."), "success")]

\* the fetchMichelson effect starts a fetch only with a connected wallet
FetchStarts(connected, address) == connected /\ address # EmptyStr

FetchRequest(version, address) == [version |-> version, walletAddress |-> address]

\* walletAddress.replace(/^"|"$/g, '')
cleanWalletAddress(address) ==
  LET a == IF Len(address) >= 1 /\ Head(address) = "\"" THEN Tail(address) ELSE address
  IN  IF Len(a) >= 1 /\ a[Len(a)] = "\"" THEN SubSeq(a, 1, Len(a) - 1) ELSE a

\* code.includes('__ADMIN_ADDRESS__'): the token, quoted or not
HasPlaceholder(text) ==
  \E i \in 1..Len(text) : text[i] \in {QuotedPlaceholder, BarePlaceholder}

\* code.replace(/"__ADMIN_ADDRESS__"/g, `"${cleanWalletAddress}"`)
ReplacePlaceholder(text, address) ==
  [i \in 1..Len(text) |->
     IF text[i] = QuotedPlaceholder THEN QuotedAddress(cleanWalletAddress(address)) ELSE text[i]]

\* ------------------------------------------------------------------------
\* Initial state: the component after its first render and mount effects,
\* with the wallet not connected
\* ------------------------------------------------------------------------

Init ==
  /\ formData = InitialFormData
  /\ formErrors = validateFormErrors(InitialFormData)
  /\ snackbar = [open |-> FALSE, message |-> Msg(""), severity |-> "info"]
  /\ contractAddress = EmptyStr
  /\ deploying = FALSE
  /\ modifiedMichelsonCode = EmptyCode
  /\ confirmDialog = ClosedDialog
  /\ contractDialogOpen = FALSE
  /\ michelsonCode = EmptyCode
  /\ estimatedFeeTez = Null
  /\ estimatedGasLimit = Null
  /\ estimatedStorageLimit = Null
  /\ estimatedBalanceChangeTez = Null
  /\ metadataPreview = <<>>
  /\ isWalletConnected = FALSE
  /\ walletAddress = EmptyStr
  /\ deployedContracts = <<>>
  /\ fetches = EmptyBag
  /\ tasks = <<>>
  /\ attempts = 0
  /\ estimatedFor = <<>>

\* ------------------------------------------------------------------------
\* The form
\* ------------------------------------------------------------------------

\* a Dialog is modal: while one is open the page behind it takes no input
ModalOpen == confirmDialog.open \/ contractDialogOpen

\* a generateContract effect whose validateForm does not store its mapping:
\* the mapping of the handler's validateField stays
FormChangeKeepsFieldErrors(data1, errs1) ==
  LET versionChanged == data1.contractVersion # formData.contractVersion
      starts == versionChanged /\ FetchStarts(isWalletConnected, walletAddress)
      code1 == IF versionChanged /\ ~starts THEN EmptyCode ELSE michelsonCode
      gen == GenerateContract(data1, code1, snackbar)
  IN  /\ starts => BagCardinality(fetches) < MaxFetches
      /\ formData' = data1
      /\ formErrors' = errs1
      /\ metadataPreview' = MetadataPreviewOf(data1, errs1)
      /\ michelsonCode' = code1
      /\ modifiedMichelsonCode' = gen.modified
      /\ snackbar' = gen.snack
      /\ fetches' = IF starts
                    THEN fetches (+) SetToBag({FetchRequest(data1.contractVersion, walletAddress)})
                    ELSE fetches

\* setFormData(data1) and setFormErrors(errs1) by a handler, then the render
\* and the effects: fetchMichelson when the version changed, generateContract
\* (which replaces errs1 by validateForm's mapping) and metadataPreview
FormChange(data1, errs1) ==
  LET versionChanged == data1.contractVersion # formData.contractVersion
      starts == versionChanged /\ FetchStarts(isWalletConnected, walletAddress)
      code1 == IF versionChanged /\ ~starts THEN EmptyCode ELSE michelsonCode
      gen == GenerateContract(data1, code1, snackbar)
  IN  /\ starts => BagCardinality(fetches) < MaxFetches
      /\ formData' = data1
      /\ formErrors' = gen.errors
      /\ metadataPreview' = MetadataPreviewOf(data1, gen.errors)
      /\ michelsonCode' = code1
      /\ modifiedMichelsonCode' = gen.modified
      /\ snackbar' = gen.snack
      /\ fetches' = IF starts
                    THEN fetches (+) SetToBag({FetchRequest(data1.contractVersion, walletAddress)})
                    ELSE fetches

handleInputChange(name, value) ==
  LET newValue == IF name = "description" THEN removeControlChars(value) ELSE value
  IN  /\ ~ModalOpen
      /\ newValue # formData[name]
      /\ FormChange([formData EXCEPT ![name] = newValue],
                    validateField(formErrors, formData, name, newValue))
      /\ UNCHANGED <<contractAddress, deploying, confirmDialog, contractDialogOpen,
                     estimateVars, walletVars, deployedContracts, tasks, attempts>>

handleThumbnailUpload(dataUri) ==
  /\ ~ModalOpen
  /\ FormChange([formData EXCEPT !.imageUri = dataUri],
                validateField(formErrors, formData, "imageUri", dataUri))
  /\ UNCHANGED <<contractAddress, deploying, confirmDialog, contractDialogOpen,
                 estimateVars, walletVars, deployedContracts, tasks, attempts>>

\* ------------------------------------------------------------------------
\* The wallet context and the template loader
\* ------------------------------------------------------------------------

\* setMichelsonCode(code1) and setSnackbar(snack1), then the render and the
\* effects: generateContract runs again when the template changed
TemplateChange(code1, snack1) ==
  LET gen == GenerateContract(formData, code1, snack1)
  IN  /\ michelsonCode' = code1
      /\ IF code1 # michelsonCode
         THEN /\ formErrors' = gen.errors
              /\ metadataPreview' = MetadataPreviewOf(formData, gen.errors)
              /\ modifiedMichelsonCode' = gen.modified
              /\ snackbar' = gen.snack
         ELSE /\ snackbar' = snack1
              /\ UNCHANGED <<formErrors, metadataPreview, modifiedMichelsonCode>>
      /\ UNCHANGED formData

\* the WalletContext hands over new values; the fetchMichelson effect runs
WalletChange(connected, address) ==
  /\ <<connected, address>> # <<isWalletConnected, walletAddress>>
  /\ isWalletConnected' = connected
  /\ walletAddress' = address
  /\ IF FetchStarts(connected, address)
     THEN /\ BagCardinality(fetches) < MaxFetches
          /\ fetches' = fetches (+) SetToBag({FetchRequest(formData.contractVersion, address)})
          /\ UNCHANGED <<formVars, michelsonCode, modifiedMichelsonCode, snackbar>>
     ELSE /\ TemplateChange(EmptyCode, snackbar)
          /\ UNCHANGED fetches
  /\ UNCHANGED <<contractAddress, deploying, confirmDialog, contractDialogOpen,
                 estimateVars, deployedContracts, tasks, attempts>>

\* the text fetchMichelson hands to setMichelsonCode, '' when it throws
LoadedCode(request, answer) ==
  IF ~answer.ok THEN EmptyCode
  ELSE IF request.walletAddress = EmptyStr THEN EmptyCode
  ELSE IF request.version = "v1"
       THEN IF ~HasPlaceholder(answer.text) THEN EmptyCode
            ELSE ReplacePlaceholder(answer.text, request.walletAddress)
       ELSE answer.text

\* fetchMichelson after its awaits
FetchCompletes(request, answer) ==
  /\ BagIn(request, fetches)
  /\ fetches' = fetches (-) SetToBag({request})
  /\ LET code1 == LoadedCode(request, answer)
     IN  TemplateChange(code1,
                        IF code1 = EmptyCode
                        THEN Notify(Msg("Failed to load Michelson code."), "error")
                        ELSE snackbar)
  /\ UNCHANGED <<contractAddress, deploying, confirmDialog, contractDialogOpen,
                 estimateVars, walletVars, deployedContracts, tasks, attempts>>

\* ------------------------------------------------------------------------
\* The deployment flow
\* ------------------------------------------------------------------------

\* metadataObj, with the split, trimmed and filtered lists
MetadataObj(data) ==
  [name |-> data.name, description |-> data.description,
   interfaces |-> <<"TZIP-012", "TZIP-016">>,
   authors |-> SplitTrimFilter(data.authors),
   authoraddress |-> SplitTrimFilter(data.authorAddresses),
   symbol |-> data.symbol, creators |-> SplitTrimFilter(data.creators),
   type |-> data.type, imageUri |-> data.imageUri]

\* the argument of tezos.estimate.originate and of tezos.wallet.originate:
\* the code, and the storage by its shape (v1 or v2), its admin and the
\* payload its metadata map holds under 'content'
OriginateArgs(data, address, code) ==
  [code |-> code,
   storage |-> [shape |-> data.contractVersion, admin |-> address,
                content |-> stringToHex(JsonStringify(MetadataObj(data)))]]

\* an async handler at an await, with what its closure captured
Task(pc, balance) ==
  [pc |-> pc, data |-> formData, walletAddress |-> walletAddress,
   code |-> modifiedMichelsonCode, balance |-> balance]

RemoveAt(seq, i) == SubSeq(seq, 1, i - 1) \o SubSeq(seq, i + 1, Len(seq))

EstimatingPcs == {"getBalance", "estimate"}
OriginatingPcs == {"send", "confirmation", "contract"}

\* Copy Contract: disabled={!modifiedMichelsonCode}
CopyButtonDisabled == modifiedMichelsonCode = EmptyCode

\* the button without the deploying flag in its disabled attribute
DeployButtonDisabledNoFlag ==
  modifiedMichelsonCode = EmptyCode \/ DOMAIN formErrors # {}

\* disabled={deploying || !modifiedMichelsonCode || Object.keys(formErrors).length > 0}
DeployButtonDisabled ==
  deploying \/ modifiedMichelsonCode = EmptyCode \/ DOMAIN formErrors # {}

NoRejection == [open |-> FALSE, message |-> Msg(""), severity |-> ""]

\* the early returns without the two wallet checks
DeployRejectionNoWallet(data, connected, address, modified) ==
  IF ~validateForm(data)
  THEN Notify(Msg("Please fix the errors in the form before deploying."), "error")
  ELSE IF modified = EmptyCode
  THEN Notify(Msg("Please generate the contract first."), "warning")
  ELSE NoRejection

\* the early returns of handleDeployContract: the notification of the first
\* failing precondition, NoRejection when all hold
DeployRejection(data, connected, address, modified) ==
  IF ~validateForm(data)
  THEN Notify(Msg("Please fix the errors in the form before deploying."), "error")
  ELSE IF ~connected
  THEN Notify(Msg("Please connect your wallet."), "error")
  ELSE IF address = EmptyStr
  THEN Notify(Msg("Wallet address is undefined. Please reconnect your wallet."), "error")
  ELSE IF modified = EmptyCode
  THEN Notify(Msg("Please generate the contract first."), "warning")
  ELSE NoRejection

\* a click on Deploy Contract: handleDeployContract up to its first await
handleDeployContract ==
  /\ ~ModalOpen
  /\ ~DeployButtonDisabled
  /\ attempts < MaxAttempts
  /\ attempts' = attempts + 1
  /\ LET errors == validateFormErrors(formData)
         rejection == DeployRejection(formData, isWalletConnected, walletAddress,
                                      modifiedMichelsonCode)
     IN  /\ formErrors' = errors
         /\ metadataPreview' = MetadataPreviewOf(formData, errors)
         /\ IF rejection # NoRejection
            THEN /\ snackbar' = rejection
                 /\ UNCHANGED <<deploying, tasks>>
            ELSE /\ deploying' = TRUE
                 /\ snackbar' = Notify(Msg("Checking balance and estimating fees..."), "info")
                 /\ tasks' = Append(tasks, Task("getBalance", 0))
  /\ UNCHANGED <<formData, contractAddress, confirmDialog, contractDialogOpen, templateVars,
                 estimateVars, walletVars, deployedContracts>>

\* tezos.tz.getBalance resolves: handleDeployContract goes on to the estimate
GetBalanceResolves(i, balanceMutez) ==
  /\ i \in 1..Len(tasks)
  /\ tasks[i].pc = "getBalance"
  /\ tasks' = [tasks EXCEPT ![i].pc = "estimate", ![i].balance = balanceMutez]
  /\ UNCHANGED <<formVars, snackbar, contractAddress, deploying, confirmDialog,
                 contractDialogOpen, templateVars, estimateVars, walletVars,
                 deployedContracts, attempts>>

\* the confirmation data of the outer catch of handleDeployContract
UnavailableData ==
  [estimatedFeeTez |-> NA, estimatedGasLimit |-> NA, estimatedStorageLimit |-> NA,
   storageCostTez |-> NA, estimatedBalanceChangeTez |-> NA]

\* tezos.tz.getBalance rejects: the outer catch, then finally
GetBalanceRejects(i) ==
  /\ i \in 1..Len(tasks)
  /\ tasks[i].pc = "getBalance"
  /\ tasks' = RemoveAt(tasks, i)
  /\ snackbar' = Notify(Msg("Error estimating fees. Proceeding with deployment without fee estimation."),
                        "warning")
  /\ confirmDialog' = [open |-> TRUE, data |-> <<UnavailableData>>]
  /\ deploying' = FALSE
  /\ UNCHANGED <<formVars, contractAddress, contractDialogOpen, templateVars, estimateVars,
                 walletVars, deployedContracts, attempts>>

\* storageLimit x STORAGE_COST_PER_BYTE
StorageCost(estimation) == estimation.storageLimit * STORAGE_COST_PER_BYTE

\* fee + storage cost
TotalEstimatedCost(estimation) == estimation.suggestedFeeMutez + StorageCost(estimation)

\* isLessThanOrEqualTo in place of isLessThan
InsufficientBalanceOrEqual(balanceMutez, totalMutez) == balanceMutez <= totalMutez

\* balanceTez.isLessThan(totalEstimatedCostTez)
InsufficientBalance(balanceMutez, totalMutez) == balanceMutez < totalMutez

\* the confirmation data after a successful estimate
EstimatedData(estimation) ==
  [estimatedFeeTez |-> Num(estimation.suggestedFeeMutez),
   estimatedGasLimit |-> Num(estimation.gasLimit),
   estimatedStorageLimit |-> Num(estimation.storageLimit),
   storageCostTez |-> Num(StorageCost(estimation)),
   estimatedBalanceChangeTez |-> Num(0 - TotalEstimatedCost(estimation))]

\* the confirmation data after the inner catch: originationEstimation is null
FailedEstimateData ==
  [estimatedFeeTez |-> NA, estimatedGasLimit |-> Null, estimatedStorageLimit |-> Null,
   storageCostTez |-> NA, estimatedBalanceChangeTez |-> NA]

\* tezos.estimate.originate resolves: the balance check, then the prompt
EstimateResolves(i, estimation) ==
  /\ i \in 1..Len(tasks)
  /\ tasks[i].pc = "estimate"
  /\ tasks' = RemoveAt(tasks, i)
  /\ estimatedFeeTez' = Num(estimation.suggestedFeeMutez)
  /\ estimatedGasLimit' = Num(estimation.gasLimit)
  /\ estimatedStorageLimit' = Num(estimation.storageLimit)
  /\ estimatedBalanceChangeTez' = Num(0 - TotalEstimatedCost(estimation))
  /\ IF InsufficientBalance(tasks[i].balance, TotalEstimatedCost(estimation))
     THEN /\ snackbar' = Notify(MsgNum("Insufficient balance. You need at least ",
                                       TotalEstimatedCost(estimation)), "error")
          /\ UNCHANGED <<confirmDialog, estimatedFor>>
     ELSE /\ confirmDialog' = [open |-> TRUE, data |-> <<EstimatedData(estimation)>>]
          /\ estimatedFor' = <<tasks[i]>>
          /\ UNCHANGED snackbar
  /\ deploying' = FALSE
  /\ UNCHANGED <<formVars, contractAddress, contractDialogOpen, templateVars, walletVars,
                 deployedContracts, attempts>>

\* tezos.estimate.originate rejects: the inner catch, then the prompt
EstimateRejects(i) ==
  /\ i \in 1..Len(tasks)
  /\ tasks[i].pc = "estimate"
  /\ tasks' = RemoveAt(tasks, i)
  /\ snackbar' = Notify(Msg("Fee estimation failed. Proceeding with deployment without fee estimation."),
                        "warning")
  /\ confirmDialog' = [open |-> TRUE, data |-> <<FailedEstimateData>>]
  /\ deploying' = FALSE
  /\ UNCHANGED <<formVars, contractAddress, contractDialogOpen, templateVars, estimateVars,
                 walletVars, deployedContracts, attempts>>

\* buttons that stay clickable after the prompt closed
ConfirmPromptAlwaysShown == TRUE

\* the Confirm Deployment and Cancel buttons are those of the open prompt
ConfirmPromptShown == confirmDialog.open

\* a Cancel that also resets the form
handleCloseDialogResetsForm ==
  /\ ConfirmPromptShown
  /\ confirmDialog' = ClosedDialog
  /\ formData' = InitialFormData
  /\ estimatedFor' = <<>>
  /\ UNCHANGED <<formErrors, metadataPreview, snackbar, contractAddress, deploying,
                 contractDialogOpen, templateVars, estimatedFeeTez, estimatedGasLimit,
                 estimatedStorageLimit, estimatedBalanceChangeTez, walletVars,
                 deployedContracts, tasks, attempts>>

\* handleCloseDialog: Cancel, the backdrop or Escape
handleCloseDialog ==
  /\ ConfirmPromptShown
  /\ confirmDialog' = ClosedDialog
  /\ estimatedFor' = <<>>
  /\ UNCHANGED <<formVars, snackbar, contractAddress, deploying, contractDialogOpen,
                 templateVars, estimatedFeeTez, estimatedGasLimit, estimatedStorageLimit,
                 estimatedBalanceChangeTez, walletVars, deployedContracts, tasks, attempts>>

\* a click on Confirm Deployment: confirmDeployment up to its first await
confirmDeployment ==
  /\ ConfirmPromptShown
  /\ confirmDialog' = ClosedDialog
  /\ deploying' = TRUE
  /\ snackbar' = Notify(Msg("Deploying contract..."), "info")
  /\ tasks' = Append(tasks, Task("send", 0))
  /\ estimatedFor' = <<>>
  /\ UNCHANGED <<formVars, contractAddress, contractDialogOpen, templateVars,
                 estimatedFeeTez, estimatedGasLimit, estimatedStorageLimit,
                 estimatedBalanceChangeTez, walletVars, deployedContracts, attempts>>

\* the catch without the balance_too_low case
DeploymentCatchVerbatim(error) ==
  IF error.name = "AbortedBeaconError"
  THEN Notify(Msg("Deployment aborted by the user."), "warning")
  ELSE IF ScriptErrorString(error) # EmptyStr
  THEN Notify(MsgArg("Deployment error: ", ScriptErrorString(error)), "error")
  ELSE IF error.message # EmptyStr
  THEN Notify(MsgArg("Error deploying contract: ", error.message), "error")
  ELSE Notify(Msg("Error deploying contract. Please try again."), "error")

\* the catch of confirmDeployment: the notification for this error
DeploymentCatch(error) ==
  IF error.name = "AbortedBeaconError"
  THEN Notify(Msg("Deployment aborted by the user."), "warning")
  ELSE IF ScriptErrorString(error) # EmptyStr
  THEN IF Includes(ScriptErrorString(error), Str_balance_too_low)
       THEN Notify(Msg("Insufficient balance to cover fees and storage costs."), "error")
       ELSE Notify(MsgArg("Deployment error: ", ScriptErrorString(error)), "error")
  ELSE IF error.message # EmptyStr
  THEN Notify(MsgArg("Error deploying contract: ", error.message), "error")
  ELSE Notify(Msg("Error deploying contract. Please try again."), "error")

\* a finally that resets the estimates and forgets setDeploying(false)
DeploymentFinallyKeepsFlag(i) ==
  /\ tasks' = RemoveAt(tasks, i)
  /\ UNCHANGED deploying
  /\ estimatedFeeTez' = Null
  /\ estimatedGasLimit' = Null
  /\ estimatedStorageLimit' = Null
  /\ estimatedBalanceChangeTez' = Null
  /\ UNCHANGED estimatedFor

\* the finally of confirmDeployment
DeploymentFinally(i) ==
  /\ tasks' = RemoveAt(tasks, i)
  /\ deploying' = FALSE
  /\ estimatedFeeTez' = Null
  /\ estimatedGasLimit' = Null
  /\ estimatedStorageLimit' = Null
  /\ estimatedBalanceChangeTez' = Null
  /\ UNCHANGED estimatedFor

\* tezos.wallet.originate(...).send() resolves
SendResolves(i) ==
  /\ i \in 1..Len(tasks)
  /\ tasks[i].pc = "send"
  /\ tasks' = [tasks EXCEPT ![i].pc = "confirmation"]
  /\ snackbar' = Notify(Msg("Awaiting confirmation..."), "info")
  /\ UNCHANGED <<formVars, contractAddress, deploying, confirmDialog, contractDialogOpen,
                 templateVars, estimateVars, walletVars, deployedContracts, attempts>>

\* originationOp.confirmation() resolves
ConfirmationResolves(i) ==
  /\ i \in 1..Len(tasks)
  /\ tasks[i].pc = "confirmation"
  /\ tasks' = [tasks EXCEPT ![i].pc = "contract"]
  /\ UNCHANGED <<formVars, snackbar, contractAddress, deploying, confirmDialog,
                 contractDialogOpen, templateVars, estimateVars, walletVars,
                 deployedContracts, attempts>>

\* send(), confirmation() or contract() rejects: catch, then finally
OriginationRejects(i, error) ==
  /\ i \in 1..Len(tasks)
  /\ tasks[i].pc \in OriginatingPcs
  /\ snackbar' = DeploymentCatch(error)
  /\ DeploymentFinally(i)
  /\ UNCHANGED <<formVars, contractAddress, confirmDialog, contractDialogOpen, templateVars,
                 walletVars, deployedContracts, attempts>>

\* the list written back holding the new record alone
PushContractOverwrites(storedContracts, address, owner) ==
  <<[address |-> address, owner |-> owner]>>

\* storedContracts.push({ address, owner }) on the parsed list
PushContract(storedContracts, address, owner) ==
  Append(storedContracts, [address |-> address, owner |-> owner])

\* originationOp.contract() resolves with no address
ContractResolvesEmpty(i) ==
  /\ i \in 1..Len(tasks)
  /\ tasks[i].pc = "contract"
  /\ snackbar' = Notify(Msg("Failed to retrieve contract address."), "error")
  /\ DeploymentFinally(i)
  /\ UNCHANGED <<formVars, contractAddress, confirmDialog, contractDialogOpen, templateVars,
                 walletVars, deployedContracts, attempts>>

\* originationOp.contract() resolves with an address and the list is stored
ContractResolves(i, contractAddr) ==
  /\ i \in 1..Len(tasks)
  /\ tasks[i].pc = "contract"
  /\ contractAddr # EmptyStr
  /\ contractAddress' = contractAddr
  /\ snackbar' = Notify(MsgArg("Contract deployed at ", contractAddr), "success")
  /\ contractDialogOpen' = TRUE
  /\ deployedContracts' = PushContract(deployedContracts, contractAddr, tasks[i].walletAddress)
  /\ DeploymentFinally(i)
  /\ UNCHANGED <<formVars, confirmDialog, templateVars, walletVars, attempts>>

\* originationOp.contract() resolves with an address and localStorage throws:
\* the address and the modal are set, then catch and finally
ContractResolvesStorageThrows(i, contractAddr) ==
  /\ i \in 1..Len(tasks)
  /\ tasks[i].pc = "contract"
  /\ contractAddr # EmptyStr
  /\ contractAddress' = contractAddr
  /\ contractDialogOpen' = TRUE
  /\ snackbar' = DeploymentCatch(StorageError)
  /\ DeploymentFinally(i)
  /\ UNCHANGED <<formVars, confirmDialog, templateVars, walletVars, deployedContracts,
                 attempts>>

\* handleCloseContractDialog: the button of the save-address modal
handleCloseContractDialog ==
  /\ contractDialogOpen
  /\ contractDialogOpen' = FALSE
  /\ UNCHANGED <<formVars, snackbar, contractAddress, deploying, confirmDialog,
                 templateVars, estimateVars, walletVars, deployedContracts, tasks, attempts>>

\* handleBeforeUnload, the listener the beforeunload effect keeps registered
\* with the contractAddress and contractDialogOpen of the last render: TRUE
\* when it calls e.preventDefault() and sets e.returnValue (the browser then
\* asks before leaving the page)
handleBeforeUnload == contractAddress # EmptyStr /\ ~contractDialogOpen

\* ------------------------------------------------------------------------
\* Specification
\* ------------------------------------------------------------------------

Next ==
  \/ \E input \in FieldInputs : handleInputChange(input[1], input[2])
  \/ \E dataUri \in ThumbnailInputs : handleThumbnailUpload(dataUri)
  \/ \E w \in WalletStates : WalletChange(w[1], w[2])
  \/ \E request \in BagToSet(fetches) :
       \E answer \in FetchAnswers(request.version) : FetchCompletes(request, answer)
  \/ handleDeployContract
  \/ \E i \in 1..Len(tasks), b \in Balances : GetBalanceResolves(i, b)
  \/ \E i \in 1..Len(tasks) : GetBalanceRejects(i)
  \/ \E i \in 1..Len(tasks), e \in Estimates : EstimateResolves(i, e)
  \/ \E i \in 1..Len(tasks) : EstimateRejects(i)
  \/ handleCloseDialog
  \/ confirmDeployment
  \/ \E i \in 1..Len(tasks) : SendResolves(i)
  \/ \E i \in 1..Len(tasks) : ConfirmationResolves(i)
  \/ \E i \in 1..Len(tasks), error \in SdkErrors : OriginationRejects(i, error)
  \/ \E i \in 1..Len(tasks) : ContractResolvesEmpty(i)
  \/ \E i \in 1..Len(tasks), a \in ContractAnswers : ContractResolves(i, a)
  \/ \E i \in 1..Len(tasks), a \in ContractAnswers : ContractResolvesStorageThrows(i, a)
  \/ handleCloseContractDialog

Spec == Init /\ [][Next]_vars

\* every awaited SDK call eventually resolves or rejects
SdkCompletes ==
  \/ \E i \in 1..Len(tasks), b \in Balances : GetBalanceResolves(i, b)
  \/ \E i \in 1..Len(tasks) : GetBalanceRejects(i)
  \/ \E i \in 1..Len(tasks), e \in Estimates : EstimateResolves(i, e)
  \/ \E i \in 1..Len(tasks) : EstimateRejects(i)
  \/ \E i \in 1..Len(tasks) : SendResolves(i)
  \/ \E i \in 1..Len(tasks) : ConfirmationResolves(i)
  \/ \E i \in 1..Len(tasks), error \in SdkErrors : OriginationRejects(i, error)
  \/ \E i \in 1..Len(tasks) : ContractResolvesEmpty(i)
  \/ \E i \in 1..Len(tasks), a \in ContractAnswers : ContractResolves(i, a)
  \/ \E i \in 1..Len(tasks), a \in ContractAnswers : ContractResolvesStorageThrows(i, a)

SpecLive == Spec /\ WF_vars(SdkCompletes)

\* the form on its own: the user edits the fields with valid and invalid
\* values and uploads thumbnails, the wallet staying disconnected
FormNext ==
  \/ \E input \in FormInputs : handleInputChange(input[1], input[2])
  \/ \E dataUri \in FormThumbnails : handleThumbnailUpload(dataUri)

SpecForm == Init /\ [][FormNext]_vars

\* ---- the validators applied to formData snapshots ----

\* the component holding one of the snapshots and one of the prior mappings
InitValidate ==
  /\ formData \in Snapshots
  /\ formErrors \in PriorErrors
  /\ snackbar = [open |-> FALSE, message |-> Msg(""), severity |-> "info"]
  /\ contractAddress = EmptyStr
  /\ deploying = FALSE
  /\ modifiedMichelsonCode = EmptyCode
  /\ confirmDialog = ClosedDialog
  /\ contractDialogOpen = FALSE
  /\ michelsonCode = EmptyCode
  /\ estimatedFeeTez = Null
  /\ estimatedGasLimit = Null
  /\ estimatedStorageLimit = Null
  /\ estimatedBalanceChangeTez = Null
  /\ metadataPreview = <<>>
  /\ isWalletConnected = FALSE
  /\ walletAddress = EmptyStr
  /\ deployedContracts = <<>>
  /\ fetches = EmptyBag
  /\ tasks = <<>>
  /\ attempts = 0
  /\ estimatedFor = <<>>

\* what a validator call leaves alone
ValidatorFrame ==
  UNCHANGED <<formData, snackbar, contractAddress, deploying, modifiedMichelsonCode,
              confirmDialog, contractDialogOpen, michelsonCode, estimateVars,
              metadataPreview, walletVars, deployedContracts, fetches, tasks, attempts>>

\* validateField(fieldName, formData[fieldName]) against a prior mapping
ValidateFieldStep(fieldName) ==
  /\ formErrors \in PriorErrors
  /\ formErrors' = validateField(formErrors, formData, fieldName, formData[fieldName])
  /\ ValidatorFrame

\* validateField on every field in turn, from an empty mapping
ValidateEachField ==
  /\ formErrors \in PriorErrors
  /\ formErrors' = validateEachField(formData)
  /\ ValidatorFrame

\* validateForm()
ValidateFormStep ==
  /\ formErrors \in PriorErrors
  /\ formErrors' = validateFormErrors(formData)
  /\ ValidatorFrame

ValidateNext ==
  \/ \E k \in 1..Len(FieldNames) : ValidateFieldStep(FieldNames[k])
  \/ ValidateEachField
  \/ ValidateFormStep

SpecValidate == InitValidate /\ [][ValidateNext]_vars

\* ---- the template loader applied to served texts ----

\* the component with a wallet connected (its address with or without quotes
\* around it), a version selected and the template request of that render in
\* flight
InitTemplate ==
  /\ formData \in {[base EXCEPT !.contractVersion = v] :
                     base \in {InitialFormData, ValidFormData}, v \in Versions}
  /\ formErrors = validateFormErrors(formData)
  /\ snackbar = [open |-> FALSE, message |-> Msg(""), severity |-> "info"]
  /\ contractAddress = EmptyStr
  /\ deploying = FALSE
  /\ modifiedMichelsonCode = EmptyCode
  /\ confirmDialog = ClosedDialog
  /\ contractDialogOpen = FALSE
  /\ michelsonCode = EmptyCode
  /\ estimatedFeeTez = Null
  /\ estimatedGasLimit = Null
  /\ estimatedStorageLimit = Null
  /\ estimatedBalanceChangeTez = Null
  /\ metadataPreview = MetadataPreviewOf(formData, formErrors)
  /\ isWalletConnected = TRUE
  /\ walletAddress \in {WalletA, <<"\"">> \o WalletA \o <<"\"">>}
  /\ deployedContracts = <<>>
  /\ fetches = SetToBag({FetchRequest(formData.contractVersion, walletAddress)})
  /\ tasks = <<>>
  /\ attempts = 0
  /\ estimatedFor = <<>>

\* the request is answered with an error or with one of the texts
SpecTemplate ==
  InitTemplate /\
    [][\E request \in BagToSet(fetches) :
         \E answer \in FetchAnswers(request.version)
                         \cup {[ok |-> TRUE, text |-> t] : t \in TemplateTexts} :
           FetchCompletes(request, answer)]_vars

\* the form edited with valid and invalid values while the template request
\* is answered
SpecFormTemplate ==
  InitTemplate /\
    [][\/ FormNext
       \/ \E request \in BagToSet(fetches) :
            \E answer \in FetchAnswers(request.version) : FetchCompletes(request, answer)
      ]_vars

\* ------------------------------------------------------------------------
\* Properties
\* ------------------------------------------------------------------------

\* the handlers in flight, by what they await
NumEstimating == Cardinality({i \in 1..Len(tasks) : tasks[i].pc \in EstimatingPcs})
NumOriginating == Cardinality({i \in 1..Len(tasks) : tasks[i].pc \in OriginatingPcs})

\* no attempt in progress
Idle == ~deploying /\ ~confirmDialog.open /\ tasks = <<>>

\* the state of the orchestrator
Phase ==
  IF NumEstimating > 0 THEN "estimating"
  ELSE IF NumOriginating > 0 THEN "deploying"
  ELSE IF confirmDialog.open THEN "confirming"
  ELSE "idle"

\* the reason a click on Deploy Contract is rejected for, "" when there is none
RejectionReason ==
  IF DOMAIN validateFormErrors(formData) # {}
  THEN "Please fix the errors in the form before deploying."
  ELSE IF ~isWalletConnected THEN "Please connect your wallet."
  ELSE IF walletAddress = EmptyStr
  THEN "Wallet address is undefined. Please reconnect your wallet."
  ELSE IF modifiedMichelsonCode = EmptyCode THEN "Please generate the contract first."
  ELSE ""

\* C1: a click on Deploy Contract starts the estimate (deploying set, the
\* balance call issued) exactly when the form validates, the wallet is
\* connected with an address and the generated contract is not empty; any
\* other click shows the notification of its reason, issues no SDK call, opens
\* no prompt and leaves the component idle; nothing else starts an estimate.
C1_DeployPreconditions ==
  [][/\ attempts' = attempts + 1 =>
          IF RejectionReason = ""
          THEN /\ deploying'
               /\ tasks' = Append(tasks, tasks'[Len(tasks')])
               /\ tasks'[Len(tasks')].pc = "getBalance"
               /\ ~confirmDialog'.open
          ELSE /\ snackbar'.open
               /\ snackbar'.message.text = RejectionReason
               /\ snackbar'.severity \in {"error", "warning"}
               /\ tasks' = tasks
               /\ confirmDialog' = confirmDialog
               /\ Idle'
     /\ NumEstimating' > NumEstimating => attempts' = attempts + 1 /\ RejectionReason = ""
    ]_vars

\* C1 witness: a click was rejected because the wallet is not connected
C1_Witness ==
  /\ attempts >= 1
  /\ snackbar.message.text = "Please connect your wallet."
  /\ Idle
  /\ modifiedMichelsonCode # EmptyCode

\* C2: the orchestrator moves idle -> estimating -> confirming -> deploying ->
\* idle; an origination is submitted only by the step that closes an open
\* confirmation prompt, a prompt is opened only by the step that ends an
\* estimate, an estimate starts only from idle, and closing the prompt without
\* confirming leaves the component idle with no origination submitted.
C2_FlowOrder ==
  [][/\ <<Phase, Phase'>> \in
          {<<"idle", "idle">>, <<"idle", "estimating">>,
           <<"estimating", "estimating">>, <<"estimating", "confirming">>,
           <<"estimating", "idle">>,
           <<"confirming", "confirming">>, <<"confirming", "deploying">>,
           <<"confirming", "idle">>,
           <<"deploying", "deploying">>, <<"deploying", "idle">>}
     /\ NumOriginating' > NumOriginating =>
          /\ confirmDialog.open /\ ~confirmDialog'.open
          /\ NumOriginating = 0 /\ NumOriginating' = 1
     /\ (~confirmDialog.open /\ confirmDialog'.open) =>
          NumEstimating = 1 /\ NumEstimating' = 0
     /\ NumEstimating' > NumEstimating => Idle
     /\ (confirmDialog.open /\ ~confirmDialog'.open /\ NumOriginating' = NumOriginating) =>
          Idle' /\ tasks' = tasks
    ]_vars

\* C2 witness: an origination is awaiting the SDK after the prompt was confirmed
C2_Witness ==
  /\ Phase = "deploying"
  /\ ~confirmDialog.open
  /\ deploying
  /\ \E i \in 1..Len(tasks) : tasks[i].pc = "confirmation"

\* C3: at most one handler awaits the SDK at any time, and while one does the
\* deploying flag is set, so that the Deploy Contract button is disabled and
\* no prompt is open to confirm.
C3_SingleAttempt ==
  /\ Len(tasks) <= 1
  /\ tasks # <<>> => deploying /\ DeployButtonDisabled /\ ~confirmDialog.open

\* C3 witness: an estimate is pending on a form that would otherwise allow a
\* click on Deploy Contract
C3_Witness ==
  /\ Len(tasks) = 1
  /\ tasks[1].pc = "estimate"
  /\ deploying
  /\ modifiedMichelsonCode # EmptyCode
  /\ DOMAIN formErrors = {}
  /\ ~ModalOpen

\* C4: when the estimate resolves, a total cost (fee + storage cost) above
\* the balance ends the attempt idle with the insufficient-balance error and
\* no prompt; a balance equal to or above the total cost opens the prompt.
C4_InsufficientBalanceAborts ==
  [][\A i \in 1..Len(tasks), estimation \in Estimates :
       EstimateResolves(i, estimation) =>
         IF estimation.suggestedFeeMutez + estimation.storageLimit * STORAGE_COST_PER_BYTE
              > tasks[i].balance
         THEN /\ Idle'
              /\ snackbar'.severity = "error"
              /\ snackbar'.message.text = "Insufficient balance. You need at least "
         ELSE /\ confirmDialog'.open
              /\ ~deploying'
    ]_vars

\* C4 witness: an attempt ended on the insufficient-balance error
C4_Witness ==
  /\ Idle
  /\ attempts >= 1
  /\ snackbar.message.text = "Insufficient balance. You need at least "
  /\ estimatedFeeTez # Null

\* C5 (as claimed): when the estimate rejects, the prompt opens and its five
\* fields are all 'N/A'.
C5_AllFieldsUnavailable ==
  [][\A i \in 1..Len(tasks) :
       EstimateRejects(i) =>
         /\ confirmDialog'.open
         /\ \A field \in DOMAIN confirmDialog'.data[1] : confirmDialog'.data[1][field] = NA
    ]_vars

\* C6: a finished handler leaves deploying false (no handler in flight, no
\* deploying flag), and under SpecLive, where every awaited SDK call
\* eventually resolves or rejects, deploying = TRUE leads to deploying = FALSE.
C6_DeployingRestored ==
  /\ [](tasks = <<>> => ~deploying)
  /\ (deploying ~> ~deploying)

\* C6 witness: an origination failed and deploying is false again
C6_Witness ==
  /\ attempts >= 1
  /\ tasks = <<>>
  /\ ~deploying
  /\ snackbar.message.text = "Error deploying contract: "

\* C7: a step that changes formData is a field change or a thumbnail upload:
\* it starts, advances, ends or cancels no attempt and touches no result of
\* one.
C7_FormDataOnlyByFieldEvents ==
  [][formData' # formData =>
       /\ ~ModalOpen
       /\ \/ \E input \in FieldInputs : formData' = [formData EXCEPT ![input[1]] = input[2]]
          \/ \E dataUri \in ThumbnailInputs : formData' = [formData EXCEPT !.imageUri = dataUri]
       /\ UNCHANGED <<tasks, deploying, confirmDialog, attempts, resultVars, estimateVars>>
    ]_vars

\* C7 witness: an attempt was cancelled by the user in the wallet and the form
\* still holds the values it was started with
C7_Witness ==
  /\ Idle
  /\ snackbar.message.text = "Deployment aborted by the user."
  /\ validateForm(formData)
  /\ formData.name = Str_Art

C9_NoPartialState ==
  [][\A i \in 1..Len(tasks) :
       (\/ \E error \in SdkErrors : OriginationRejects(i, error)
        \/ \E a \in ContractAnswers : ContractResolvesStorageThrows(i, a)) =>
         /\ Idle'
         /\ snackbar'.severity \in {"error", "warning"}
         /\ estimatedFeeTez' = Null
         /\ estimatedGasLimit' = Null
         /\ estimatedStorageLimit' = Null
         /\ estimatedBalanceChangeTez' = Null
         /\ UNCHANGED resultVars
    ]_vars

C11_UnloadGuard ==
  /\ (contractAddress # EmptyStr /\ contractDialogOpen) => handleBeforeUnload
  /\ contractAddress = EmptyStr => ~handleBeforeUnload

\* C13 (as claimed): once every field holds a valid value (and nothing else
\* is going on: no deployment in progress, no modal open) the metadata
\* preview is non-null and the Deploy button is enabled.
C13_ValidFormDeployEnabled ==
  (validateForm(formData) /\ ~deploying /\ ~ModalOpen) =>
    (metadataPreview # <<>> /\ ~DeployButtonDisabled)

\* C13 (amended): once every field holds a valid value, entered in any
\* order, the error mapping is empty and the metadata preview is non-null and
\* shows the entered values; the Deploy button is enabled provided the
\* contract template has been loaded and no deployment is in progress, and
\* disabled while the template is missing.
C13_ValidFormEnables ==
  validateForm(formData) =>
    /\ DOMAIN formErrors = {}
    /\ metadataPreview # <<>>
    /\ metadataPreview[1].name = formData.name
    /\ metadataPreview[1].symbol = formData.symbol
    /\ modifiedMichelsonCode = michelsonCode
    /\ DeployButtonDisabled <=> (deploying \/ michelsonCode = EmptyCode)

\* C13 witness: all fields valid, the template loaded, Deploy enabled
C13_Witness ==
  /\ validateForm(formData)
  /\ metadataPreview # <<>>
  /\ michelsonCode # EmptyCode
  /\ ~DeployButtonDisabled
  /\ attempts = 0

C14_ValidatorsAgree ==
  /\ validateEachField(formData) = validateFormErrors(formData)
  /\ (DOMAIN validateEachField(formData) = {}) <=> validateForm(formData)

\* C14 witness: a snapshot with two authors and one address, validated field
\* by field: the count mismatch is the one entry of the mapping
C14_Witness ==
  /\ formData = [ValidFormData EXCEPT !.authors = Str_AliceBob]
  /\ formErrors = validateEachField(formData)
  /\ DOMAIN formErrors = {"authorAddresses"}

\* C15 (as claimed): validateField on a field, against the mapping in
\* formErrors, gives a mapping in which the field has an entry if and only if
\* its value fails its rules, the entries of the other fields being as they
\* were.
C15_EntryIffFails ==
  \A k \in 1..Len(FieldNames) :
    LET f == FieldNames[k]
        after == validateField(formErrors, formData, f, formData[f])
    IN  /\ (f \in DOMAIN after) <=> (FieldError(formData, f) # NoError)
        /\ \A g \in (DOMAIN formErrors \cup DOMAIN after) \ {f} :
             g \in DOMAIN formErrors /\ g \in DOMAIN after /\ after[g] = formErrors[g]

\* C16: the symbol rule, in validateField (against the mapping in formErrors)
\* and in validateForm, passes exactly the symbols of 3 to 5 characters that
\* are all letters or digits.
C16_SymbolRule ==
  LET value == formData.symbol
      wellFormed == /\ Len(value) >= 3
                    /\ Len(value) <= 5
                    /\ \A i \in 1..Len(value) : value[i] \in AlnumChars
  IN  /\ ("symbol" \notin DOMAIN validateField(formErrors, formData, "symbol", value))
           <=> wellFormed
      /\ ("symbol" \notin DOMAIN validateFormErrors(formData)) <=> wellFormed

\* C16 witness: a five-character symbol of letters and digits was validated
\* against a mapping that held a symbol error, and the entry is gone
C16_Witness ==
  /\ formData.symbol = <<"A", "z", "7", "7", "A">>
  /\ "symbol" \notin DOMAIN formErrors
  /\ "name" \in DOMAIN formErrors

\* C17: when the number of trimmed non-empty authors entries differs from the
\* number of trimmed non-empty authorAddresses entries, validation of
\* authorAddresses (validateField against the mapping in formErrors, and
\* validateForm) ends with the count-mismatch message, whatever the entries
\* and the other errors are.
C17_CountMismatch ==
  Len(SplitTrimFilter(formData.authors)) # Len(SplitTrimFilter(formData.authorAddresses)) =>
    LET after == validateField(formErrors, formData, "authorAddresses", formData.authorAddresses)
        whole == validateFormErrors(formData)
    IN  /\ "authorAddresses" \in DOMAIN after
        /\ after.authorAddresses = Msg("Number of authors and author addresses must match.")
        /\ "authorAddresses" \in DOMAIN whole
        /\ whole.authorAddresses = Msg("Number of authors and author addresses must match.")

\* C17 witness: two authors, one entry that is no address, the other fields
\* empty: validateForm gave the count mismatch
C17_Witness ==
  /\ formData = [InitialFormData EXCEPT !.authors = Str_AliceBob, !.authorAddresses = Str_xyz]
  /\ formErrors = validateFormErrors(formData)
  /\ formErrors.authorAddresses = Msg("Number of authors and author addresses must match.")

\* C18 (as claimed): creators validation fails when two entries are equal
\* after trimming and passes for every list of pairwise distinct valid
\* addresses, whatever the number of entries.
C18_CreatorsAnyLength ==
  LET parts == SplitTrim(formData.creators)
      after == validateField(formErrors, formData, "creators", formData.creators)
      whole == validateFormErrors(formData)
  IN  /\ (\E i, j \in 1..Len(parts) : i # j /\ parts[i] = parts[j])
           => ("creators" \in DOMAIN after /\ "creators" \in DOMAIN whole)
      /\ ((\A i, j \in 1..Len(parts) : i # j => parts[i] # parts[j])
            /\ \A i \in 1..Len(parts) : isValidTezosAddress(parts[i]))
           => ("creators" \notin DOMAIN after /\ "creators" \notin DOMAIN whole)

\* C18 (amended): creators validation (validateField against the mapping in
\* formErrors, and validateForm) fails when two entries are equal after
\* trimming (compared case-sensitively), and passes for every list of
\* pairwise distinct valid addresses whose text is at most 200 characters; a
\* longer list fails on its length.
C18_CreatorsUpTo200 ==
  LET parts == SplitTrim(formData.creators)
      after == validateField(formErrors, formData, "creators", formData.creators)
      whole == validateFormErrors(formData)
      distinctValid ==
        /\ \A i, j \in 1..Len(parts) : i # j => parts[i] # parts[j]
        /\ \A i \in 1..Len(parts) : isValidTezosAddress(parts[i])
  IN  /\ (\E i, j \in 1..Len(parts) : i # j /\ parts[i] = parts[j])
           => ("creators" \in DOMAIN after /\ "creators" \in DOMAIN whole)
      /\ (distinctValid /\ Len(formData.creators) <= 200)
           => ("creators" \notin DOMAIN after /\ "creators" \notin DOMAIN whole)
      /\ (distinctValid /\ Len(formData.creators) > 200)
           => /\ "creators" \in DOMAIN after /\ "creators" \in DOMAIN whole
              /\ after.creators = Msg("Creator(s) cannot exceed 200 characters.")
              /\ whole.creators = Msg("Creator(s) cannot exceed 200 characters.")

\* C18 witness: five distinct addresses (184 characters) validated against a
\* mapping that held a creators error: the entry is gone
C18_Witness ==
  /\ formData.creators = DistinctAddresses(5)
  /\ "creators" \notin DOMAIN formErrors
  /\ "name" \in DOMAIN formErrors

\* C19 (as claimed): validateField and validateForm reject a name of more
\* than 30, a description of more than 250, authors of more than 50, creators
\* of more than 200 and authorAddresses of more than 200 characters with an
\* error on that field.
C19_LengthBounds ==
  \A f \in {"name", "description", "authors", "creators", "authorAddresses"} :
    Len(formData[f]) > (CASE f = "name" -> 30
                          [] f = "description" -> 250
                          [] f = "authors" -> 50
                          [] OTHER -> 200)
      => /\ f \in DOMAIN validateField(formErrors, formData, f, formData[f])
         /\ f \in DOMAIN validateFormErrors(formData)

\* C20: getByteSize of the padded base64 data URI of an n-byte file is n, and
\* the imageUri rule (validateField against the mapping in formErrors, and
\* validateForm) accepts exactly the files of at most 20000 bytes.
C20_ByteSizeRoundTrip ==
  \A n \in PayloadSizes :
    formData.imageUri = EncodedDataUri(n) =>
      /\ getByteSize(formData.imageUri) = n
      /\ ("imageUri" \in DOMAIN validateField(formErrors, formData, "imageUri", formData.imageUri))
           <=> (n > 20000)
      /\ ("imageUri" \in DOMAIN validateFormErrors(formData)) <=> (n > 20000)

\* C20 witness: a file of exactly 20000 bytes validated against a mapping
\* that held an imageUri error: the entry is gone
C20_Witness ==
  /\ formData.imageUri = EncodedDataUri(20000)
  /\ getByteSize(formData.imageUri) = 20000
  /\ "imageUri" \notin DOMAIN formErrors
  /\ "name" \in DOMAIN formErrors

\* C21 (as claimed): after a successful v1 template load the stored template
\* contains no occurrence of the placeholder token __ADMIN_ADDRESS__.
C21_NoPlaceholderRemains ==
  (/\ formData.contractVersion = "v1"
   /\ fetches = EmptyBag
   /\ michelsonCode # EmptyCode) =>
    \A i \in 1..Len(michelsonCode) :
      michelsonCode[i] \notin {QuotedPlaceholder, BarePlaceholder}

\* C22 (as claimed), first half: each kind of template-load failure (a fetch
\* answered with an error, a v1 text without the placeholder, the effect
\* running with no wallet) raises a notification and leaves the template
\* empty.
C22_LoadFailureNotified ==
  [][/\ \A request \in BagToSet(fetches) :
          \A answer \in FetchAnswers(request.version) :
            (FetchCompletes(request, answer) /\ LoadedCode(request, answer) = EmptyCode) =>
              /\ snackbar'.open /\ snackbar'.severity = "error"
              /\ michelsonCode' = EmptyCode
     /\ \A w \in WalletStates :
          (WalletChange(w[1], w[2]) /\ ~FetchStarts(w[1], w[2])) =>
            /\ snackbar'.open /\ snackbar'.severity = "error"
            /\ michelsonCode' = EmptyCode
    ]_vars

\* C22, second half: in every state where the template is empty Copy Contract
\* and Deploy Contract are disabled.
C22_EmptyTemplateDisables ==
  michelsonCode = EmptyCode => CopyButtonDisabled /\ DeployButtonDisabled

\* C23 (as claimed): for every formData that passes validateForm, the payload
\* stringToHex(JSON.stringify(metadataObj)) has exactly two hexadecimal digits
\* for every character of the serialized string, and decoding it pairwise
\* gives that string back (thumbnails of up to MaxPayloadBytes bytes).
C23_PayloadWellFormed ==
  (validateForm(formData) /\ formData.imageUri.b64len <= 4 * ((MaxPayloadBytes + 2) \div 3)) =>
    LET str == JsonStringify(MetadataObj(formData))
        payload == stringToHex(str)
        digits == <<"0", "1", "2", "3", "4", "5", "6", "7", "8", "9",
                    "a", "b", "c", "d", "e", "f">>
        value(h) == (CHOOSE n \in 1..16 : digits[n] = h) - 1
    IN  /\ Len(payload) = 2 * Len(str)
        /\ \A i \in 1..Len(str) :
             16 * value(payload[2 * i - 1]) + value(payload[2 * i]) = CharCode(str[i])

\* C24 (as claimed): within one deployment attempt the code and the initial
\* storage (shape, admin, metadata payload) that confirmDeployment submits with
\* the origination are those the fee estimate of the attempt was computed for.
C24_OriginationAsEstimated ==
  [][(confirmDeployment /\ estimatedFor # <<>>) =>
       LET estimated == estimatedFor[1]
           submitted == tasks'[Len(tasks')]
       IN  OriginateArgs(submitted.data, submitted.walletAddress, submitted.code)
             = OriginateArgs(estimated.data, estimated.walletAddress, estimated.code)
    ]_vars

\* C25 (as claimed): every origination handed to the SDK carries a formData
\* that passes validateForm, a non-empty contract code and a defined wallet
\* address, whatever happened between the Deploy click and the Confirm click.
C25_OriginationsValid ==
  \A i \in 1..Len(tasks) :
    tasks[i].pc \in OriginatingPcs =>
      /\ validateForm(tasks[i].data)
      /\ tasks[i].code # EmptyCode
      /\ tasks[i].walletAddress # EmptyStr

\* C26 (as claimed): once all template fetches have completed, the loaded
\* template is the one for the selected contractVersion with the current
\* wallet address substituted (or empty after a failed load), and it is empty
\* when no wallet is connected.
C26_TemplateOfCurrentSelection ==
  fetches = EmptyBag =>
    IF FetchStarts(isWalletConnected, walletAddress)
    THEN michelsonCode \in
           {LoadedCode(FetchRequest(formData.contractVersion, walletAddress), answer) :
              answer \in FetchAnswers(formData.contractVersion)}
    ELSE michelsonCode = EmptyCode

====
